---- MODULE Spec2Model ----
(***************************************************************************)
(* Model of hm.py: a "Lights Out" style puzzle (class _Board), its solver  *)
(* (_Board.solve) and the interactive shell (_shell) that drives them.     *)
(*                                                                         *)
(* The board state is a Python int used as a bit vector.  Python ints are  *)
(* unbounded two's complement numbers, so the bitwise operators below are  *)
(* defined on all integers, negative ones included.                        *)
(* Text (command tokens, exported rows) is a sequence of one-character     *)
(* strings.                                                                *)
(***************************************************************************)
EXTENDS Integers, Sequences, FiniteSets, TLC

\* hm.py:10
MAX_BOARD_SIZE == 8

\* Bounds of the model: the boards the shell is asked to create have
\* width <= MaxW, height <= MaxH and at most MaxCells cells.
MaxW == 3
MaxH == 3
MaxCells == 6
\* Boards with at most MaxRichCells cells are also sent "s" rows written in
\* the alphabet of int(str, base=2) (signs, "_", "0b"), not only in 0/1.
MaxRichCells == 4
\* Sizes up to CheckCells cells are used when board construction is
\* evaluated as a function of the "n" arguments.
CheckCells == 8
\* The boards whose solver is run from every state have at most
\* SolveCells cells.
SolveCells == 9

\* Sets of up to MaxOrder cells are toggled in every order.
MaxOrder == 3

----------------------------------------------------------------------------
(* Python int operators *)

\* a >> n (arithmetic shift: floor division by 2^n)
Shr(a, n) == a \div (2 ^ n)

\* ~a
Not(a) == (0 - a) - 1

RECURSIVE And(_, _)
\* a & b
And(a, b) ==
    IF a = 0 \/ b = 0 THEN 0
    ELSE IF a = -1 THEN b
    ELSE IF b = -1 THEN a
    ELSE 2 * And(a \div 2, b \div 2) + ((a % 2) * (b % 2))

RECURSIVE Or(_, _)
\* a | b
Or(a, b) ==
    IF a = 0 THEN b
    ELSE IF b = 0 THEN a
    ELSE IF a = -1 \/ b = -1 THEN -1
    ELSE 2 * Or(a \div 2, b \div 2)
         + (IF (a % 2) + (b % 2) > 0 THEN 1 ELSE 0)

RECURSIVE Xor(_, _)
\* a ^ b
Xor(a, b) ==
    IF a = 0 THEN b
    ELSE IF b = 0 THEN a
    ELSE IF a = -1 THEN Not(b)
    ELSE IF b = -1 THEN Not(a)
    ELSE 2 * Xor(a \div 2, b \div 2) + (((a % 2) + (b % 2)) % 2)

RECURSIVE SumSeq(_)
\* sum(...) over a sequence of ints
SumSeq(s) == IF s = <<>> THEN 0 ELSE Head(s) + SumSeq(Tail(s))

RECURSIVE SumSet(_)
\* sum(...) over a set of ints
SumSet(S) ==
    IF S = {} THEN 0
    ELSE LET e == CHOOSE v \in S : TRUE IN e + SumSet(S \ {e})

RECURSIVE Reverse(_)
\* list.reverse()
Reverse(s) == IF s = <<>> THEN <<>> ELSE Append(Reverse(Tail(s)), Head(s))

----------------------------------------------------------------------------
(* class _Board *)

\* The value of the variable "board" before the first "n" command.
None == [width |-> 0, height |-> 0, bits |-> 0,
         patterns |-> <<>>, patterns_bits |-> <<>>]

\* _Board._bit_pos
bit_pos(w, h, x, y) == (w - x - 1) + (h - y - 1) * w

\* _Board._bit
bit(w, h, x, y) == 2 ^ bit_pos(w, h, x, y)

\* The cells visited by "for y in range(height): for x in range(width)".
Cells(w, h) == (0 .. w - 1) \X (0 .. h - 1)

\* A variant of pattern_of in which the cells of the left column have the
\* cell at the right end of their row as left neighbour.
pattern_of_wrapped(w, h, x, y) ==
    LET p0 == bit(w, h, x, y)
        p1 == Or(p0, bit(w, h, IF x # 0 THEN x - 1 ELSE w - 1, y))
        p2 == IF x < w - 1 THEN Or(p1, bit(w, h, x + 1, y)) ELSE p1
        p3 == IF y # 0 THEN Or(p2, bit(w, h, x, y - 1)) ELSE p2
        p4 == IF y < h - 1 THEN Or(p3, bit(w, h, x, y + 1)) ELSE p3
    IN  p4

\* The pattern built for cell (x, y) by the body of the loop of
\* _init_patterns: the integer "pat".
pattern_of(w, h, x, y) ==
    LET p0 == bit(w, h, x, y)
        p1 == IF x # 0 THEN Or(p0, bit(w, h, x - 1, y)) ELSE p0
        p2 == IF x < w - 1 THEN Or(p1, bit(w, h, x + 1, y)) ELSE p1
        p3 == IF y # 0 THEN Or(p2, bit(w, h, x, y - 1)) ELSE p2
        p4 == IF y < h - 1 THEN Or(p3, bit(w, h, x, y + 1)) ELSE p3
    IN  p4

\* The set _patterns_bits[pat_n] built by the same loop body.
pattern_bits_of(w, h, x, y) ==
    {bit_pos(w, h, x, y)}
    \cup (IF x # 0 THEN {bit_pos(w, h, x - 1, y)} ELSE {})
    \cup (IF x < w - 1 THEN {bit_pos(w, h, x + 1, y)} ELSE {})
    \cup (IF y # 0 THEN {bit_pos(w, h, x, y - 1)} ELSE {})
    \cup (IF y < h - 1 THEN {bit_pos(w, h, x, y + 1)} ELSE {})

\* _Board._init_patterns: the dict _patterns, keyed by pat_n.
init_patterns(w, h) ==
    [n \in {bit_pos(w, h, c[1], c[2]) : c \in Cells(w, h)} |->
        LET c == CHOOSE d \in Cells(w, h) : bit_pos(w, h, d[1], d[2]) = n
        IN  pattern_of(w, h, c[1], c[2])]

\* _Board._init_patterns: the dict _patterns_bits, keyed by pat_n.
init_patterns_bits(w, h) ==
    [n \in {bit_pos(w, h, c[1], c[2]) : c \in Cells(w, h)} |->
        LET c == CHOOSE d \in Cells(w, h) : bit_pos(w, h, d[1], d[2]) = n
        IN  pattern_bits_of(w, h, c[1], c[2])]

\* _Board.__init__
new_board(w, h) ==
    [width |-> w, height |-> h,
     bits |-> SumSet({bit(w, h, c[1], c[2]) : c \in Cells(w, h)}),
     patterns |-> init_patterns(w, h),
     patterns_bits |-> init_patterns_bits(w, h)]

\* _Board.n_bits
n_bits(b) == b.width * b.height

\* _Board.is_solved
is_solved(b) == \A n \in 0 .. n_bits(b) - 1 : Shr(b.bits, n) % 2 = 1

\* A variant of apply_pattern that flips the cell alone and leaves its
\* neighbours as they are.
apply_pattern_own_cell(b, x, y) ==
    [b EXCEPT !.bits = Xor(b.bits, bit(b.width, b.height, x, y))]

\* A variant of apply_pattern that enables the cells of the pattern
\* instead of flipping them.
apply_pattern_or(b, x, y) ==
    [b EXCEPT !.bits = Or(b.bits, b.patterns[bit_pos(b.width, b.height, x, y)])]

\* A variant of apply_pattern that flips the pattern and then disables the
\* cell itself.
apply_pattern_disabling(b, x, y) ==
    [b EXCEPT !.bits =
        And(Xor(b.bits, b.patterns[bit_pos(b.width, b.height, x, y)]),
            Not(bit(b.width, b.height, x, y)))]

\* _Board.apply_pattern
apply_pattern(b, x, y) ==
    [b EXCEPT !.bits = Xor(b.bits, b.patterns[bit_pos(b.width, b.height, x, y)])]

\* _Board.set_bits
set_bits(b, v) == [b EXCEPT !.bits = v]

\* _Board.set_cell
set_cell(b, x, y, v) ==
    IF v # 0
    THEN [b EXCEPT !.bits = Or(b.bits, bit(b.width, b.height, x, y))]
    ELSE [b EXCEPT !.bits = And(b.bits, Not(bit(b.width, b.height, x, y)))]

RECURSIVE xor_all(_, _, _)
\* The loop of _Board.apply_n_rand over the sampled patterns: XOR into
\* "bits" the patterns of the cells at the positions in S.
xor_all(b, bits, S) ==
    IF S = {} THEN bits
    ELSE LET n == CHOOSE m \in S : TRUE
         IN  xor_all(b, Xor(bits, b.patterns[n]), S \ {n})

\* A variant of apply_n_rand whose sample may hold fewer than n_changes
\* entries.
apply_n_rand_up_to(b, n_changes) ==
    {[b EXCEPT !.bits = xor_all(b, b.bits, S)] :
        S \in {T \in SUBSET (DOMAIN b.patterns) : Cardinality(T) <= n_changes}}

\* _Board.apply_n_rand: random.sample picks n_changes distinct entries of
\* the list of patterns; every such choice is a possible outcome.
apply_n_rand(b, n_changes) ==
    {[b EXCEPT !.bits = xor_all(b, b.bits, S)] :
        S \in {T \in SUBSET (DOMAIN b.patterns) : Cardinality(T) = n_changes}}

----------------------------------------------------------------------------
(* _Board.__repr__ *)

RECURSIVE bin_digits(_)
\* The binary digits of n >= 0, most significant first ("0" for 0).
bin_digits(n) ==
    IF n < 2 THEN <<IF n = 1 THEN "1" ELSE "0">>
    ELSE Append(bin_digits(n \div 2), IF n % 2 = 1 THEN "1" ELSE "0")

\* '{:b}'.format(v): a "-" sign followed by the digits of abs(v).
format_b(v) == IF v < 0 THEN <<"-">> \o bin_digits(0 - v) ELSE bin_digits(v)

RECURSIVE zeros(_)
\* '0' * n
zeros(n) == IF n <= 0 THEN <<>> ELSE <<"0">> \o zeros(n - 1)

\* str.zfill(n): pad with zeros on the left, after a leading sign, up to
\* a total length of n.
zfill(s, n) ==
    IF Len(s) >= n THEN s
    ELSE IF s # <<>> /\ Head(s) \in {"-", "+"}
         THEN <<Head(s)>> \o zeros(n - Len(s)) \o Tail(s)
         ELSE zeros(n - Len(s)) \o s

\* s[i:j] for 0 <= i <= j
slice(s, i, j) ==
    LET hi == IF j > Len(s) THEN Len(s) ELSE j
    IN  IF i >= hi THEN <<>> ELSE SubSeq(s, i + 1, hi)

\* _Board.__repr__: the list split_str_bits, one string per row (the
\* result joins them with spaces; the "s" command splits them again).
repr(b) ==
    LET str_bits == zfill(format_b(b.bits), n_bits(b))
    IN  [row \in 1 .. b.height |->
            slice(str_bits, (row - 1) * b.width, row * b.width)]

----------------------------------------------------------------------------
(* _Board.solve *)

\* A variant of lengths with the two parities exchanged: an odd number
\* of patterns for a bit that is set, an even number for one that is not.
lengths_flipped(b, bit_n, bit_v) ==
    LET start == IF bit_v = 1 THEN 1 ELSE 0
    IN  {l \in start .. Cardinality(b.patterns_bits[bit_n]) :
            (l - start) % 2 = 0}

\* The range "lengths" of solve for a bit with value bit_v.
lengths(b, bit_n, bit_v) ==
    LET start == IF bit_v = 1 THEN 0 ELSE 1
    IN  {l \in start .. Cardinality(b.patterns_bits[bit_n]) :
            (l - start) % 2 = 0}

\* A variant of constraint_set that takes only the combinations of the
\* smallest length.
constraint_set_smallest(b, bit_n, bit_v) ==
    {SumSet({2 ^ pat_bit_n : pat_bit_n \in pat_set}) :
        pat_set \in {ps \in SUBSET b.patterns_bits[bit_n] :
                        Cardinality(ps) = IF bit_v = 1 THEN 0 ELSE 1}}

\* The set constraint_set that solve builds for bit bit_n.
constraint_set(b, bit_n, bit_v) ==
    {SumSet({2 ^ pat_bit_n : pat_bit_n \in pat_set}) :
        pat_set \in {ps \in SUBSET b.patterns_bits[bit_n] :
                        Cardinality(ps) \in lengths(b, bit_n, bit_v)}}

\* The list constraint_sets of solve (entry bit_n + 1 is for bit bit_n).
constraint_sets(b) ==
    [i \in 1 .. n_bits(b) |->
        constraint_set(b, i - 1, Shr(b.bits, i - 1) % 2)]

\* The condition under which _combine_constraint_sets descends.
consistent(constraint, prev_covered, prev_constraint, covered) ==
    And(constraint, prev_covered) = And(prev_constraint, covered)

RECURSIVE combine_constraint_sets(_, _, _, _, _)
\* _Board._combine_constraint_sets: what the generator yields.  It yields
\* once for every way through its nested loops, so a yield is written as
\* the sequence of the constraints the loops stood at, followed by the
\* value yielded (prev_constraint): two yields of the same value stay two.
combine_constraint_sets(b, sets, bit_n, prev_covered, prev_constraint) ==
    IF sets = <<>> THEN {<<prev_constraint>>}
    ELSE UNION {
        {<<constraint>> \o y :
            y \in combine_constraint_sets(b, Tail(sets), bit_n + 1,
                      Or(prev_covered, b.patterns[bit_n]),
                      Or(prev_constraint, constraint))} :
        constraint \in {c \in Head(sets) :
            consistent(c, prev_covered, prev_constraint, b.patterns[bit_n])}}

\* A variant of walk whose inner loop runs over x from 0 upwards.
walk_mirrored(b) ==
    [k \in 1 .. n_bits(b) |->
        <<(k - 1) % b.width, b.height - 1 - ((k - 1) \div b.width)>>]

\* The cells visited by the two loops of _pattern_bits_to_coords, in
\* order: entry k + 1 is the cell that bit k of pattern_bits stands for.
walk(b) ==
    [k \in 1 .. n_bits(b) |->
        <<b.width - 1 - ((k - 1) % b.width),
          b.height - 1 - ((k - 1) \div b.width)>>]

RECURSIVE steps_from(_, _, _)
\* The list "steps" appended to from iteration k on.
steps_from(b, pattern_bits, k) ==
    IF k > n_bits(b) THEN <<>>
    ELSE (IF pattern_bits % 2 = 1 THEN <<walk(b)[k]>> ELSE <<>>)
         \o steps_from(b, pattern_bits \div 2, k + 1)

\* A variant of _pattern_bits_to_coords without the final reverse().
pattern_bits_to_coords_unreversed(b, pattern_bits) ==
    steps_from(b, pattern_bits, 1)

\* _Board._pattern_bits_to_coords
pattern_bits_to_coords(b, pattern_bits) ==
    Reverse(steps_from(b, pattern_bits, 1))

\* A variant of generated that stops after the first yield.
generated_one(b) ==
    LET ys == combine_constraint_sets(b, constraint_sets(b), 0, 0, 0)
    IN  {<<y, pattern_bits_to_coords(b, y[Len(y)])>> :
            y \in {z \in ys : z = CHOOSE first \in ys : TRUE}}

\* list(map(self._pattern_bits_to_coords, ...)): the elements of the list
\* "solutions", each a pair of the yield and the steps made from it.
generated(b) ==
    {<<y, pattern_bits_to_coords(b, y[Len(y)])>> :
        y \in combine_constraint_sets(b, constraint_sets(b), 0, 0, 0)}

\* A variant of shortest for a list left in the order of the yields.
shortest_any(items) == items

\* A variant of shortest for a list sorted with the longest first.
longest(items) ==
    {i \in items : \A j \in items : Len(i[2]) >= Len(j[2])}

\* The elements a list sorted by len can start with.
shortest(items) ==
    {i \in items : \A j \in items : Len(i[2]) <= Len(j[2])}

RECURSIVE sort_by_len(_)
\* solutions.sort(key=len).  The sort is stable and the order in which the
\* generator yields follows the iteration order of Python sets, which the
\* language leaves open: every arrangement of the elements that is in
\* non-decreasing order of length is a possible result.
sort_by_len(items) ==
    IF items = {} THEN {<<>>}
    ELSE UNION {{<<i[2]>> \o rest : rest \in sort_by_len(items \ {i})} :
                   i \in shortest(items)}

\* assert len(solutions) > 0; solutions.sort(key=len); return solutions
sorted_or_none(items) == IF items # {} THEN sort_by_len(items) ELSE {}

\* _Board.solve: the lists it can return; the empty set when the
\* assertion 'Unsolvable puzzle' fails.
solve(b) == sorted_or_none(generated(b))

----------------------------------------------------------------------------
(* Argument conversion: int, _Bits, _Coord and _match_cmd *)

\* ord(c) for the characters the model types.
ord(c) ==
    CASE c = "+" -> 43 [] c = "-" -> 45 [] c = "?" -> 63 [] c = "_" -> 95
      [] c = "0" -> 48 [] c = "1" -> 49 [] c = "2" -> 50 [] c = "3" -> 51
      [] c = "4" -> 52 [] c = "5" -> 53 [] c = "6" -> 54 [] c = "7" -> 55
      [] c = "8" -> 56 [] c = "9" -> 57
      [] c = "a" -> 97 [] c = "b" -> 98 [] c = "c" -> 99 [] c = "d" -> 100
      [] c = "e" -> 101 [] c = "f" -> 102 [] c = "g" -> 103 [] c = "h" -> 104
      [] c = "i" -> 105 [] c = "j" -> 106 [] c = "n" -> 110 [] c = "p" -> 112
      [] c = "r" -> 114 [] c = "s" -> 115 [] c = "x" -> 120 [] c = "z" -> 122

\* The digits of int() in the given base.
digits(base) == {c \in {"0", "1", "2", "3", "4", "5", "6", "7", "8", "9"} :
                    ord(c) - ord("0") < base}

RECURSIVE digits_value(_, _, _)
\* The value of a string of digits and underscores, given the value acc
\* of the digits already read.
digits_value(s, base, acc) ==
    IF s = <<>> THEN acc
    ELSE IF Head(s) = "_" THEN digits_value(Tail(s), base, acc)
    ELSE digits_value(Tail(s), base, acc * base + (ord(Head(s)) - ord("0")))

\* int() accepts digits with single underscores between them.
well_grouped(s, base) ==
    /\ s # <<>>
    /\ \A i \in 1 .. Len(s) : s[i] \in digits(base) \cup {"_"}
    /\ s[1] # "_"
    /\ s[Len(s)] # "_"
    /\ \A i \in 1 .. Len(s) - 1 : ~(s[i] = "_" /\ s[i + 1] = "_")

\* The string after an optional sign.
strip_sign(s) == IF s # <<>> /\ Head(s) \in {"-", "+"} THEN Tail(s) ELSE s

\* For base 2, the string after an optional "0b" that one underscore
\* may follow.
strip_prefix(s, base) ==
    IF base = 2 /\ Len(s) >= 2 /\ s[1] = "0" /\ s[2] = "b"
    THEN IF Len(s) >= 3 /\ s[3] = "_"
         THEN SubSeq(s, 4, Len(s))
         ELSE SubSeq(s, 3, Len(s))
    ELSE s

\* The value of the digits s of a number with the given sign; ok = FALSE
\* stands for ValueError.
parse_digits(neg, s, base) ==
    IF well_grouped(s, base)
    THEN [ok |-> TRUE,
          val |-> IF neg THEN 0 - digits_value(s, base, 0)
                  ELSE digits_value(s, base, 0)]
    ELSE [ok |-> FALSE, val |-> 0]

\* int(s, base) for base 2 or 10, s not empty and without white space:
\* an optional sign, for base 2 an optional prefix, then the digits.
parse_int(s, base) ==
    parse_digits(s # <<>> /\ Head(s) = "-",
                 strip_prefix(strip_sign(s), base), base)

\* The converter "int" in a command pattern.
int_conv == [kind |-> "int", width |-> 0, height |-> 0, has_size |-> TRUE]

\* _Bits.__init__
Bits(width) ==
    [kind |-> "bits", width |-> width, height |-> 0, has_size |-> TRUE]

\* _Coord.__init__: has_size is FALSE when the board is None.
Coord(b) ==
    [kind |-> "coord", width |-> b.width, height |-> b.height,
     has_size |-> b # None]

\* _Bits.__call__
bits_call(conv, str_bits) ==
    IF Len(str_bits) # conv.width THEN [ok |-> FALSE, val |-> 0]
    ELSE parse_int(str_bits, 2)

\* The range checks of _Coord.__call__ on x and on y = int(...) - 1,
\* where py is the result of int().
coord_check(conv, x, py) ==
    IF ~py.ok THEN [ok |-> FALSE, val |-> <<0, 0>>]
    ELSE IF x < 0 \/ x >= conv.width THEN [ok |-> FALSE, val |-> <<0, 0>>]
    ELSE IF py.val - 1 < 0 \/ py.val - 1 >= conv.height
         THEN [ok |-> FALSE, val |-> <<0, 0>>]
    ELSE [ok |-> TRUE, val |-> <<x, py.val - 1>>]

\* _Coord.__call__
coord_call(conv, str_coord) ==
    IF ~conv.has_size THEN [ok |-> FALSE, val |-> <<0, 0>>]
    ELSE IF Len(str_coord) # 2 THEN [ok |-> FALSE, val |-> <<0, 0>>]
    ELSE coord_check(conv, ord(str_coord[1]) - ord("a"),
                     parse_int(<<str_coord[2]>>, 10))

\* Every converted value is kept as a pair: <<x, y>> for a coordinate,
\* <<v, 0>> for the int v.
as_pair(r) == [ok |-> r.ok, val |-> <<r.val, 0>>]

\* pattern_n(cmd_n) in _match_cmd.
convert(conv, tok) ==
    IF conv.kind = "coord" THEN coord_call(conv, tok)
    ELSE IF conv.kind = "bits" THEN as_pair(bits_call(conv, tok))
    ELSE as_pair(parse_int(tok, 10))

\* What the "except ValueError" branch of _match_cmd evaluates to name
\* the type: _Coord.type_name formats width and height with %u, which
\* raises TypeError when they are None.
type_name_raises(conv) == conv.kind = "coord" /\ ~conv.has_size

\* Lines the shell prints.
ErrArgCount == "[Error] Invalid number of arguments for command"
ErrArgType == "[Error] Argument is not of type"
ErrSizeMin == "[Error] Board size must be >= 1"
ErrSizeMax == "[Error] Board size must be <="
ErrNoBoard == "[Error] No board, please create one"
ErrRandMin == "[Error] Number of random changes must be >= 1"
ErrRandMax == "[Error] Number of random changes must be <="
ErrUnknown == "[Error] Unknown command"
OutBoard == "print(board)"
OutRepr == "print(repr(board))"
OutHelp == "help"
OutMany == "More than one solution found"
OutSolved == "Already solved!"
OutSteps == "Steps:"
RaisedType == "TypeError"
RaisedUnsolvable == "AssertionError: Unsolvable puzzle"
RaisedWrong == "AssertionError: Solver produced wrong solution"

RECURSIVE match_args(_, _, _)
\* One iteration of the loop of _match_cmd, r being the result of the
\* conversion of the first argument.
match_arg(args, convs, argv, r) ==
    IF r.ok THEN match_args(Tail(args), Tail(convs), Append(argv, r.val))
    ELSE IF type_name_raises(Head(convs))
    THEN [matched |-> FALSE, argv |-> argv, printed |-> <<>>,
          raised |-> TRUE]
    ELSE [matched |-> FALSE, argv |-> argv, printed |-> <<ErrArgType>>,
          raised |-> FALSE]

\* The "for cmd_n, pattern_n in zip(cmd, pattern)" loop of _match_cmd,
\* with argv the values appended to argv_out so far.
match_args(args, convs, argv) ==
    IF args = <<>>
    THEN [matched |-> TRUE, argv |-> argv, printed |-> <<>>,
          raised |-> FALSE]
    ELSE match_arg(args, convs, argv, convert(Head(convs), Head(args)))

\* _match_cmd(cmd, pattern, argv_out): whether it returns True, the
\* contents of argv_out, the error it prints, whether TypeError escapes.
match_cmd(cmd, pattern) ==
    IF Head(cmd) # Head(pattern)
    THEN [matched |-> FALSE, argv |-> <<>>, printed |-> <<>>,
          raised |-> FALSE]
    ELSE IF Len(cmd) # Len(pattern)
    THEN [matched |-> FALSE, argv |-> <<>>, printed |-> <<ErrArgCount>>,
          raised |-> FALSE]
    ELSE match_args(Tail(cmd), Tail(pattern), <<>>)

\* _check_board
check_board(b) == b # None

----------------------------------------------------------------------------
(* _shell *)

\* board: the local "board" of _shell (None before the first "n").
\* solutions: the list returned by the solve() call of the last command,
\*   <<>> when the last command did not call solve() (the shell reads the
\*   local only in the iteration that assigns it).
\* output: what the last command printed: the kinds of the lines and,
\*   for "pb", the rows of repr(board).
\* prev_cmd_had_output: the local of that name.
\* pc: "running" while the loop reads commands, "exited" after "x" or
\*   end of input, "crashed" after an exception left _shell.
VARIABLES board, solutions, output, prev_cmd_had_output, pc

vars == <<board, solutions, output, prev_cmd_had_output, pc>>

Out(msgs, text) == [msgs |-> msgs, text |-> text]

\* _shell before the loop: _print_basic_help(), board = None.
Init ==
    /\ board = None
    /\ solutions = <<>>
    /\ output = Out(<<OutHelp>>, <<>>)
    /\ prev_cmd_had_output = TRUE
    /\ pc = "running"

(* The command lines the model types: cmd = input('> ').lower().split() *)

LetterSeq == <<"a", "b", "c", "d", "e", "f", "g", "h", "i", "j">>
DigitSeq == <<"0", "1", "2", "3", "4", "5", "6", "7", "8", "9">>
Min(a, b) == IF a < b THEN a ELSE b

Max(a, b) == IF a > b THEN a ELSE b

\* Arguments of "n": the sizes up to one past the largest board of the
\* model, the sizes around MAX_BOARD_SIZE, a negative one and a word.
SizeTokens ==
    {<<DigitSeq[i]>> : i \in 1 .. Min(Max(MaxW, MaxH) + 2, 10)}
    \cup {<<"8">>, <<"9">>, <<"-", "1">>, <<"1", "0">>, <<"x">>}

\* Arguments of "r": the counts up to one past the cells of the largest
\* board of the model, a negative one and a word.
CountTokens ==
    {<<DigitSeq[i]>> : i \in 1 .. Min(MaxCells + 2, 10)}
    \cup {<<"-", "1">>, <<"1", "0">>, <<"x">>}

\* Arguments for the _Coord converter: a letter and a digit up to one
\* past the largest board, and strings of another shape.
CoordTokens ==
    {<<LetterSeq[i], DigitSeq[j]>> :
        i \in 1 .. Min(MaxW + 1, 10), j \in 1 .. Min(MaxH + 2, 10)}
    \cup {<<"1", "a">>, <<"1", "1">>, <<"a", "a">>, <<"a", "-">>,
          <<"a">>, <<"a", "1", "1">>}

\* The characters int(str, base=2) gives a meaning to, and one it
\* does not.
RichAlphabet == {"0", "1", "-", "+", "_", "b", "2"}

\* Arguments for the _Bits converter: the strings of the width of the
\* board over RichAlphabet, one string too short and one too long.
RichTokens(b) ==
    [1 .. b.width -> RichAlphabet]
    \cup {t \in {zeros(b.width - 1), zeros(b.width + 1)} : t # <<>>}

\* Arguments of the "s" command: every export of a state of the board;
\* for the small boards, rows of zeros with one row replaced by a string
\* of RichTokens; one row too few and one row too many.
SetArgs(b) ==
    IF b = None THEN {<<>>, <<<<"0">>>>}
    ELSE [1 .. b.height -> [1 .. b.width -> {"0", "1"}]]
         \cup (IF n_bits(b) <= MaxRichCells
               THEN {[[j \in 1 .. b.height |-> zeros(b.width)]
                         EXCEPT ![i] = t] :
                        i \in 1 .. b.height, t \in RichTokens(b)}
               ELSE {})
         \cup {[i \in 1 .. k |-> zeros(b.width)] :
                  k \in {b.height - 1, b.height + 1}}

name_n == <<"n">>
name_c == <<"c">>
name_p == <<"p">>
name_pb == <<"p", "b">>
name_r == <<"r">>
name_rr == <<"r", "r">>
name_s == <<"s">>
name_e == <<"e">>
name_d == <<"d">>
name_f == <<"f">>
name_a == <<"a">>
name_x == <<"x">>
name_h == <<"h">>
name_q == <<"?">>
Known == {name_n, name_c, name_p, name_pb, name_r, name_rr, name_s, name_e,
          name_d, name_f, name_a, name_x}

\* ('?' in cmd) or ('h' in cmd)
is_help(cmd) == \E i \in 1 .. Len(cmd) : cmd[i] \in {name_q, name_h}

\* A command without arguments, alone and with one argument too many.
Plain(name) == {<<name>>, <<name, <<"1">>>>}

(* How an iteration of the loop ends *)

\* The iteration ends (falls out of the if chain or executes continue)
\* and the board is the one it started with.
Stay(msgs) ==
    /\ board' = board
    /\ solutions' = <<>>
    /\ output' = Out(msgs, <<>>)
    /\ prev_cmd_had_output' = TRUE
    /\ pc' = "running"

\* The iteration ends with the board set to b.
Done(b, msgs) ==
    /\ board' = b
    /\ solutions' = <<>>
    /\ output' = Out(msgs, <<>>)
    /\ prev_cmd_had_output' = TRUE
    /\ pc' = "running"

\* An exception leaves _shell and ends the program.
Crash(sols, msg) ==
    /\ board' = board
    /\ solutions' = sols
    /\ output' = Out(<<msg>>, <<>>)
    /\ prev_cmd_had_output' = TRUE
    /\ pc' = "crashed"

\* _match_cmd returned False for the branch of the command's name: no
\* later branch has that name, so the final else prints "Unknown
\* command" (or the TypeError of type_name ends the shell).
NoMatch(m) ==
    IF m.raised THEN Crash(<<>>, RaisedType)
    ELSE Stay(m.printed \o <<ErrUnknown>>)

\* The guard every branch after the first has: the loop is running, the
\* line is not empty, not a help request, and names this command.
Typed(cmd, name) ==
    /\ pc = "running"
    /\ cmd # <<>>
    /\ ~is_help(cmd)
    /\ Head(cmd) = name

(* The branches of the if chain.  m is what _match_cmd returned for the
   branch of the command's name. *)

\* A branch whose _match_cmd returned m and whose body is Body.
Branch(m, Body(_)) ==
    IF ~m.matched THEN NoMatch(m) ELSE Body(m.argv)

\* The same for a body that starts with
\* "if not _check_board(board): continue".
BoardBranch(m, Body(_)) ==
    IF ~m.matched THEN NoMatch(m)
    ELSE IF ~check_board(board) THEN Stay(<<ErrNoBoard>>)
    ELSE Body(m.argv)

\* if ('?' in cmd) or ('h' in cmd): _print_help()
Help(cmd) ==
    /\ pc = "running"
    /\ is_help(cmd)
    /\ Stay(<<OutHelp>>)

\* break
exit_body(argv) ==
    /\ board' = board
    /\ solutions' = <<>>
    /\ output' = Out(<<>>, <<>>)
    /\ prev_cmd_had_output' = TRUE
    /\ pc' = "exited"

\* elif _match_cmd(cmd, ('x', )): break
Exit(cmd) ==
    Typed(cmd, name_x) /\ Branch(match_cmd(cmd, <<name_x>>), exit_body)

\* A variant of size_check that compares with >= MAX_BOARD_SIZE.
size_check_below_max(argv) ==
    IF argv[1][1] < 1 \/ argv[2][1] < 1 THEN <<ErrSizeMin>>
    ELSE IF argv[1][1] >= MAX_BOARD_SIZE \/ argv[2][1] >= MAX_BOARD_SIZE
    THEN <<ErrSizeMax>>
    ELSE <<>>

\* The two size checks of the "n" branch: the error printed, <<>> when
\* the branch goes on to build the board.
size_check(argv) ==
    IF argv[1][1] < 1 \/ argv[2][1] < 1 THEN <<ErrSizeMin>>
    ELSE IF argv[1][1] > MAX_BOARD_SIZE \/ argv[2][1] > MAX_BOARD_SIZE
    THEN <<ErrSizeMax>>
    ELSE <<>>

\* The body of the "n" branch: the board afterwards and the line printed.
new_cmd(b, argv) ==
    IF size_check(argv) # <<>>
    THEN [board |-> b, msgs |-> size_check(argv)]
    ELSE [board |-> new_board(argv[1][1], argv[2][1]), msgs |-> <<OutBoard>>]

\* The sizes the model lets the shell build: the ones the shell refuses
\* and the ones within the bounds of the model.
WithinModel(w, h) ==
    \/ w < 1 \/ h < 1 \/ w > MAX_BOARD_SIZE \/ h > MAX_BOARD_SIZE
    \/ (w <= MaxW /\ h <= MaxH /\ w * h <= MaxCells)

\* The iteration ends as the record r says.
Finish(r) == Done(r.board, r.msgs)

new_body(argv) ==
    WithinModel(argv[1][1], argv[2][1]) /\ Finish(new_cmd(board, argv))

\* elif _match_cmd(cmd, ('n', int, int), cmd_argv)
New(cmd) ==
    /\ Typed(cmd, name_n)
    /\ Branch(match_cmd(cmd, <<name_n, int_conv, int_conv>>), new_body)

clear_body(argv) == Done(set_bits(board, 0), <<OutBoard>>)

\* elif _match_cmd(cmd, ('c', ))
Clear(cmd) ==
    Typed(cmd, name_c) /\ BoardBranch(match_cmd(cmd, <<name_c>>), clear_body)

show_body(argv) == Stay(<<OutBoard>>)

\* elif _match_cmd(cmd, ('p', ))
ShowBoard(cmd) ==
    Typed(cmd, name_p) /\ BoardBranch(match_cmd(cmd, <<name_p>>), show_body)

show_binary_body(argv) ==
    /\ board' = board
    /\ solutions' = <<>>
    /\ output' = Out(<<OutRepr>>, repr(board))
    /\ prev_cmd_had_output' = TRUE
    /\ pc' = "running"

\* elif _match_cmd(cmd, ('pb', ))
ShowBinary(cmd) ==
    /\ Typed(cmd, name_pb)
    /\ BoardBranch(match_cmd(cmd, <<name_pb>>), show_binary_body)

\* A variant of rand_cmd that, asked for more changes than the board has
\* cells, prints the error and changes every cell's pattern.
rand_cmd_clamped(b, argv) ==
    IF argv[1][1] < 1
    THEN [boards |-> {b}, msgs |-> <<ErrRandMin>>]
    ELSE IF argv[1][1] > n_bits(b)
    THEN [boards |-> apply_n_rand(b, n_bits(b)), msgs |-> <<ErrRandMax>>]
    ELSE [boards |-> apply_n_rand(b, argv[1][1]), msgs |-> <<OutBoard>>]

\* The body of the "r" branch after _check_board: the boards it can
\* leave and the line printed.
rand_cmd(b, argv) ==
    IF argv[1][1] < 1
    THEN [boards |-> {b}, msgs |-> <<ErrRandMin>>]
    ELSE IF argv[1][1] > n_bits(b)
    THEN [boards |-> {b}, msgs |-> <<ErrRandMax>>]
    ELSE [boards |-> apply_n_rand(b, argv[1][1]), msgs |-> <<OutBoard>>]

\* The iteration ends with one of the boards of r.
FinishAny(r) == \E b \in r.boards : Done(b, r.msgs)

rand_body(argv) == FinishAny(rand_cmd(board, argv))

\* elif _match_cmd(cmd, ('r', int), cmd_argv)
Rand(cmd) ==
    /\ Typed(cmd, name_r)
    /\ BoardBranch(match_cmd(cmd, <<name_r, int_conv>>), rand_body)

\* board.apply_n_rand(random.randint(1, board.n_bits))
rand_rand_body(argv) ==
    \E n \in 1 .. n_bits(board) :
        \E b \in apply_n_rand(board, n) : Done(b, <<OutBoard>>)

\* elif _match_cmd(cmd, ('rr', ))
RandRand(cmd) ==
    /\ Typed(cmd, name_rr)
    /\ BoardBranch(match_cmd(cmd, <<name_rr>>), rand_rand_body)

\* _match_board_set_cmd
match_board_set_cmd(cmd, b) ==
    IF b = None THEN match_cmd(cmd, <<name_s>>)
    ELSE match_cmd(cmd, <<name_s>> \o [i \in 1 .. b.height |-> Bits(b.width)])

\* The argument of set_bits in the "s" branch:
\* sum(b << n * width for b, n in zip(cmd_argv, range(height - 1, -1, -1)))
rows_value(b, argv) ==
    SumSeq([i \in 1 .. Min(Len(argv), b.height) |->
               argv[i][1] * (2 ^ ((b.height - i) * b.width))])

set_body(argv) ==
    Done(set_bits(board, rows_value(board, argv)), <<OutBoard>>)

\* elif _match_board_set_cmd(cmd, board, cmd_argv)
SetBoard(cmd) ==
    /\ Typed(cmd, name_s)
    /\ BoardBranch(match_board_set_cmd(cmd, board), set_body)

enable_body(argv) ==
    Done(set_cell(board, argv[1][1], argv[1][2], 1), <<OutBoard>>)

\* elif _match_cmd(cmd, ('e', _Coord(board)), cmd_argv)
Enable(cmd) ==
    /\ Typed(cmd, name_e)
    /\ BoardBranch(match_cmd(cmd, <<name_e, Coord(board)>>), enable_body)

disable_body(argv) ==
    Done(set_cell(board, argv[1][1], argv[1][2], 0), <<OutBoard>>)

\* elif _match_cmd(cmd, ('d', _Coord(board)), cmd_argv)
Disable(cmd) ==
    /\ Typed(cmd, name_d)
    /\ BoardBranch(match_cmd(cmd, <<name_d, Coord(board)>>), disable_body)

flip_body(argv) ==
    Done(apply_pattern(board, argv[1][1], argv[1][2]), <<OutBoard>>)

\* elif _match_cmd(cmd, ('f', _Coord(board)), cmd_argv)
Flip(cmd) ==
    /\ Typed(cmd, name_f)
    /\ BoardBranch(match_cmd(cmd, <<name_f, Coord(board)>>), flip_body)

RECURSIVE replay(_, _)
\* The loop "for step_x, step_y in solution: demo.apply_pattern(...)".
replay(demo, solution) ==
    IF solution = <<>> THEN demo
    ELSE replay(apply_pattern(demo, Head(solution)[1], Head(solution)[2]),
                Tail(solution))

\* "More than one solution found", printed when len(solutions) > 1.
many(sols) == IF Len(sols) > 1 THEN <<OutMany>> ELSE <<>>

\* A variant of auto_end in which demo is the board itself, not a copy.
auto_end_on_board(b, sols, demo) ==
    IF sols[1] = <<>>
    THEN [board |-> demo, msgs |-> many(sols) \o <<OutSolved>>,
          failed |-> FALSE]
    ELSE IF ~is_solved(demo)
    THEN [board |-> demo, msgs |-> <<RaisedWrong>>, failed |-> TRUE]
    ELSE [board |-> demo, msgs |-> many(sols) \o <<OutSteps>>,
          failed |-> FALSE]

\* The "a" branch from "demo = copy.copy(board)" on, with demo the copy
\* after the steps of solutions[0] were applied to it: the board left,
\* the lines printed, whether the assertion on demo failed.
auto_end(b, sols, demo) ==
    IF sols[1] = <<>>
    THEN [board |-> b, msgs |-> many(sols) \o <<OutSolved>>,
          failed |-> FALSE]
    ELSE IF ~is_solved(demo)
    THEN [board |-> b, msgs |-> <<RaisedWrong>>, failed |-> TRUE]
    ELSE [board |-> b, msgs |-> many(sols) \o <<OutSteps>>,
          failed |-> FALSE]

\* The "a" branch after solve() returned sols.
auto_cmd(b, sols) == auto_end(b, sols, replay(b, sols[1]))

\* The iteration of the "a" command ends as the record r says.
AutoFinish(sols, r) ==
    IF r.failed THEN Crash(sols, RaisedWrong)
    ELSE /\ board' = r.board
         /\ solutions' = sols
         /\ output' = Out(r.msgs, <<>>)
         /\ prev_cmd_had_output' = TRUE
         /\ pc' = "running"

\* solutions = board.solve() and what follows it; results is the set of
\* lists solve() can return.
AutoSolved(results) ==
    IF results = {} THEN Crash(<<>>, RaisedUnsolvable)
    ELSE \E sols \in results : AutoFinish(sols, auto_cmd(board, sols))

auto_body(argv) == AutoSolved(solve(board))

\* elif _match_cmd(cmd, ('a', ))
Auto(cmd) ==
    Typed(cmd, name_a) /\ BoardBranch(match_cmd(cmd, <<name_a>>), auto_body)

\* else: print('[Error] Unknown command ...')
Unknown(cmd) ==
    /\ pc = "running"
    /\ cmd # <<>>
    /\ ~is_help(cmd)
    /\ Head(cmd) \notin Known
    /\ Stay(<<ErrUnknown>>)

\* if not cmd: prev_cmd_had_output = False; continue
EmptyLine ==
    /\ pc = "running"
    /\ board' = board
    /\ solutions' = <<>>
    /\ output' = Out(<<>>, <<>>)
    /\ prev_cmd_had_output' = FALSE
    /\ pc' = "running"

\* except (EOFError, SystemError, KeyboardInterrupt): break
EndOfInput ==
    /\ pc = "running"
    /\ board' = board
    /\ solutions' = <<>>
    /\ output' = Out(<<>>, <<>>)
    /\ prev_cmd_had_output' = TRUE
    /\ pc' = "exited"

(* One action per command: the user types any line of the command's
   input set. *)

HelpInputs == {<<name_q>>, <<name_h>>, <<name_n, <<"1">>, name_h>>}
NewInputs == {<<name_n>>} \cup {<<name_n, a, b>> : a, b \in SizeTokens}
RandInputs == {<<name_r>>} \cup {<<name_r, a>> : a \in CountTokens}
SetInputs(b) == {<<name_s>> \o rows : rows \in SetArgs(b)}
CoordInputs(name) == {<<name>>} \cup {<<name, c>> : c \in CoordTokens}
UnknownInputs == {<<<<"z">>>>, <<<<"z">>, <<"1">>>>}

CmdHelp == pc = "running" /\ \E cmd \in HelpInputs : Help(cmd)
CmdExit == pc = "running" /\ \E cmd \in Plain(name_x) : Exit(cmd)
CmdNew == pc = "running" /\ \E cmd \in NewInputs : New(cmd)
CmdClear == pc = "running" /\ \E cmd \in Plain(name_c) : Clear(cmd)
CmdShowBoard == pc = "running" /\ \E cmd \in Plain(name_p) : ShowBoard(cmd)
CmdShowBinary ==
    pc = "running" /\ \E cmd \in Plain(name_pb) : ShowBinary(cmd)
CmdRand == pc = "running" /\ \E cmd \in RandInputs : Rand(cmd)
CmdRandRand == pc = "running" /\ \E cmd \in Plain(name_rr) : RandRand(cmd)
CmdSetBoard == pc = "running" /\ \E cmd \in SetInputs(board) : SetBoard(cmd)
CmdEnable == pc = "running" /\ \E cmd \in CoordInputs(name_e) : Enable(cmd)
CmdDisable ==
    pc = "running" /\ \E cmd \in CoordInputs(name_d) : Disable(cmd)
CmdFlip == pc = "running" /\ \E cmd \in CoordInputs(name_f) : Flip(cmd)
CmdAuto == pc = "running" /\ \E cmd \in Plain(name_a) : Auto(cmd)
CmdUnknown == pc = "running" /\ \E cmd \in UnknownInputs : Unknown(cmd)

Next ==
    \/ CmdHelp
    \/ CmdExit
    \/ CmdNew
    \/ CmdClear
    \/ CmdShowBoard
    \/ CmdShowBinary
    \/ CmdRand
    \/ CmdRandRand
    \/ CmdSetBoard
    \/ CmdEnable
    \/ CmdDisable
    \/ CmdFlip
    \/ CmdAuto
    \/ CmdUnknown
    \/ EmptyLine
    \/ EndOfInput

\* The shell from its start, typing any of the command lines above.
Spec == Init /\ [][Next]_vars

\* The shell typing only the commands that create a board, toggle
\* patterns ("f", "r", "rr") and solve.
NextToggle == CmdNew \/ CmdFlip \/ CmdRand \/ CmdRandRand \/ CmdAuto

SpecToggle == Init /\ [][NextToggle]_vars

\* The boards of at most SolveCells cells (width <= MaxW, height <= MaxH)
\* in every state whose bits are those of cells of the board: the states
\* "n" followed by "d" commands leads to.
SolveBoards ==
    UNION {{set_bits(new_board(d[1], d[2]), v) :
                v \in 0 .. (2 ^ (d[1] * d[2])) - 1} :
              d \in {e \in (1 .. MaxW) \X (1 .. MaxH) :
                        e[1] * e[2] <= SolveCells}}

InitSolve ==
    /\ board \in SolveBoards
    /\ solutions = <<>>
    /\ output = Out(<<OutBoard>>, <<>>)
    /\ prev_cmd_had_output = TRUE
    /\ pc = "running"

NextSolve == CmdFlip \/ CmdClear \/ CmdAuto

\* The solver on every such board: "f", "c" and "a" commands only.
SpecSolve == InitSolve /\ [][NextSolve]_vars

----------------------------------------------------------------------------
(* Properties of the solver *)

\* The elements of a sequence.
Range(s) == {s[i] : i \in 1 .. Len(s)}

\* The cells a list of steps names.
cells_of(solution) == Range(solution)

\* Brute force: the sets S of cells of b whose patterns, XORed into the
\* state of b, give the state with every cell enabled.
solving_subsets(b) ==
    {S \in SUBSET Cells(b.width, b.height) :
        is_solved(set_bits(b, xor_all(b, b.bits,
            {bit_pos(b.width, b.height, c[1], c[2]) : c \in S})))}

\* C1. Soundness of the solver: every list of steps that solve() returned
\* for the board, applied step by step with apply_pattern to a copy of the
\* board, leaves the copy with every cell enabled; the shell's assertion
\* 'Solver produced wrong solution' does not fail.
C1_SolutionsSolve ==
    /\ \A i \in 1 .. Len(solutions) : is_solved(replay(board, solutions[i]))
    /\ output.msgs # <<RaisedWrong>>

\* C1 happens: solve() returned several lists for a board that is not
\* solved, and the shell showed the steps of the first.
C1_Witness ==
    /\ Len(solutions) > 1
    /\ ~is_solved(board)
    /\ output.msgs = <<OutMany, OutSteps>>

\* C2. Completeness of the solver on boards up to 3x3: when some set of
\* cells solves the board, solve() returns, the lists it returns, read as
\* sets of cells, are exactly the sets that brute force finds, and no set
\* is returned twice.
C2_AllSolutions ==
    (check_board(board) /\ board.width <= 3 /\ board.height <= 3) =>
        /\ output.msgs = <<RaisedUnsolvable>> => solving_subsets(board) = {}
        /\ solutions # <<>> =>
            /\ {cells_of(solutions[i]) : i \in 1 .. Len(solutions)}
                   = solving_subsets(board)
            /\ \A i, j \in 1 .. Len(solutions) :
                   cells_of(solutions[i]) = cells_of(solutions[j]) => i = j
            /\ \A i \in 1 .. Len(solutions) :
                   Cardinality(cells_of(solutions[i])) = Len(solutions[i])

\* C2 happens: solve() returned the four solutions of an unsolved board
\* that has four.
C2_Witness ==
    /\ check_board(board)
    /\ ~is_solved(board)
    /\ Len(solutions) = 4
    /\ Cardinality(solving_subsets(board)) = 4

\* C3. Shortest first: the list solve() returned is in non-decreasing
\* order of length, so no list in it is shorter than the first, the one
\* the "a" command shows.
C3_SortedByLength ==
    /\ \A i \in 1 .. Len(solutions) - 1 :
           Len(solutions[i]) <= Len(solutions[i + 1])
    /\ \A i \in 1 .. Len(solutions) : Len(solutions[1]) <= Len(solutions[i])

\* C3 happens: solve() returned lists of different lengths.
C3_Witness ==
    \E i, j \in 1 .. Len(solutions) : Len(solutions[i]) < Len(solutions[j])

----------------------------------------------------------------------------
(* Properties of the shell *)

\* The state of b has no bit outside the cells of b and is not negative.
in_range(b) == b.bits >= 0 /\ b.bits < 2 ^ n_bits(b)

\* C4. 'Unsolvable puzzle' never occurs: whatever commands led to a board
\* whose state is within its cells ("e", "d", "f", "c", "r", "rr", "s" of
\* in-range bits), the assertion 'Unsolvable puzzle' of solve() does
\* not fail.
C4_NeverUnsolvable ==
    (check_board(board) /\ in_range(board)) =>
        output.msgs # <<RaisedUnsolvable>>

\* C5. States reached by toggling are solvable: on every board reached
\* from a new board by "f", "r" and "rr" commands alone, the solver yields
\* at least one solution and the "a" command does not fail with
\* 'Unsolvable puzzle'.
C5_ToggledIsSolvable ==
    /\ check_board(board) => generated(board) # {}
    /\ output.msgs # <<RaisedUnsolvable>>

\* C5 happens: the "a" command showed the steps for a board that toggles
\* had left unsolved.
C5_Witness ==
    /\ check_board(board)
    /\ ~is_solved(board)
    /\ solutions # <<>>
    /\ output.msgs \in {<<OutSteps>>, <<OutMany, OutSteps>>}

\* Some line of msgs is an error message of the shell.
reports_error(msgs) ==
    \E i \in 1 .. Len(msgs) :
        msgs[i] \in {ErrArgCount, ErrArgType, ErrSizeMin, ErrSizeMax,
                     ErrNoBoard, ErrRandMin, ErrRandMax, ErrUnknown}

\* The result m of _match_cmd is a rejection with an error message.
rejected(m) == ~m.matched /\ ~m.raised /\ reports_error(m.printed)

\* On the board b, the "r" command with a count below 1 or above the
\* number of cells, the "e", "d" and "f" commands with a coordinate outside
\* the board and the "s" command with a row too many or too few or a row
\* one character too long or too short are rejected with an error message.
rejects_invalid(b) ==
    /\ \A n \in {-1, 0, n_bits(b) + 1, n_bits(b) + 2} :
           /\ rand_cmd(b, <<<<n, 0>>>>).boards = {b}
           /\ reports_error(rand_cmd(b, <<<<n, 0>>>>).msgs)
    /\ \A name \in {name_e, name_d, name_f} :
           \A i \in 1 .. Len(LetterSeq), j \in 1 .. Len(DigitSeq) :
               (i > b.width \/ j - 1 < 1 \/ j - 1 > b.height) =>
                   rejected(match_cmd(<<name, <<LetterSeq[i], DigitSeq[j]>>>>,
                                      <<name, Coord(b)>>))
    /\ \A k \in {b.height - 1, b.height + 1} :
           rejected(match_board_set_cmd(
               <<name_s>> \o [i \in 1 .. k |-> zeros(b.width)], b))
    /\ \A i \in 1 .. b.height :
           \A t \in {zeros(b.width - 1), zeros(b.width + 1)} \ {<<>>} :
               rejected(match_board_set_cmd(
                   <<name_s>> \o [[j \in 1 .. b.height |-> zeros(b.width)]
                                     EXCEPT ![i] = t], b))

\* C6. A rejected command leaves the board as it was: on every board the
\* invalid counts, coordinates and rows are rejected with an error
\* message, and every step of the shell that prints an error message
\* (invalid size, wrong number of arguments, wrong argument, invalid
\* count, unknown command) leaves the board - its size, state and
\* patterns - unchanged.
C6_RejectedKeepsBoard ==
    /\ [](check_board(board) => rejects_invalid(board))
    /\ [][reports_error(output'.msgs) => board' = board]_vars

\* C6 happens: an "r" command with too large a count was rejected on a
\* board that is not solved.
C6_Witness ==
    /\ check_board(board)
    /\ ~is_solved(board)
    /\ output.msgs = <<ErrRandMax>>

\* C7. Sizes: for every width and height from -1 to MAX_BOARD_SIZE + 2,
\* the "n" command prints a size error and leaves the board it had when
\* either is below 1 or above MAX_BOARD_SIZE, and otherwise builds a board
\* of that width and height with every cell enabled; every board the
\* shell holds has width and height in 1 .. MAX_BOARD_SIZE.
C7_SizeChecked ==
    /\ check_board(board) =>
           /\ board.width \in 1 .. MAX_BOARD_SIZE
           /\ board.height \in 1 .. MAX_BOARD_SIZE
    /\ \A w, h \in -1 .. MAX_BOARD_SIZE + 2 :
           IF w < 1 \/ h < 1 \/ w > MAX_BOARD_SIZE \/ h > MAX_BOARD_SIZE
           THEN /\ size_check(<<<<w, 0>>, <<h, 0>>>>)
                       \in {<<ErrSizeMin>>, <<ErrSizeMax>>}
                /\ new_cmd(board, <<<<w, 0>>, <<h, 0>>>>).board = board
           ELSE /\ size_check(<<<<w, 0>>, <<h, 0>>>>) = <<>>
                /\ w * h <= CheckCells =>
                       /\ new_cmd(board, <<<<w, 0>>, <<h, 0>>>>).msgs
                              = <<OutBoard>>
                       /\ new_cmd(board, <<<<w, 0>>, <<h, 0>>>>).board
                              = new_board(w, h)
                       /\ new_board(w, h).width = w
                       /\ new_board(w, h).height = h
                       /\ is_solved(new_board(w, h))

\* C7 happens: an "n" command with a size above MAX_BOARD_SIZE was
\* rejected while the shell held a board.
C7_Witness ==
    /\ check_board(board)
    /\ output.msgs = <<ErrSizeMax>>

\* The board that the "s" command leaves when it is given the rows of
\* repr(b) on a new board of the size of b.
reimported(b) ==
    set_bits(new_board(b.width, b.height),
             rows_value(new_board(b.width, b.height),
                 match_board_set_cmd(<<name_s>> \o repr(b),
                     new_board(b.width, b.height)).argv))

\* C8. Round trip: the rows that "pb" prints for the board are accepted by
\* the "s" command on a new board of the same size, and the board it
\* leaves has the same state and the same "pb" output.
C8_ExportImport ==
    check_board(board) =>
        /\ match_board_set_cmd(<<name_s>> \o repr(board),
               new_board(board.width, board.height)).matched
        /\ reimported(board).bits = board.bits
        /\ repr(reimported(board)) = repr(board)

\* C9. The state stays within the board: in every state the shell
\* reaches, the state of the board is not negative and has no bit set
\* outside its width * height cells.
C9_StateInRange == check_board(board) => in_range(board)

\* The state of a new board of the size of b after one apply_pattern
\* at cell c.
toggled_once(b, c) ==
    apply_pattern(new_board(b.width, b.height), c[1], c[2]).bits

\* C10. One toggle: when the board is a new board with the pattern of one
\* cell c applied once, solve() returns, the list it returns contains
\* the one-step list <<c>> and starts with a list of one step; on the
\* 3x3 board with c = (1, 1) it starts with exactly <<(1, 1)>>.
C10_SingleToggle ==
    check_board(board) =>
        \A c \in Cells(board.width, board.height) :
            board.bits = toggled_once(board, c) =>
                /\ output.msgs # <<RaisedUnsolvable>>
                /\ solutions # <<>> =>
                    /\ <<c>> \in Range(solutions)
                    /\ Len(solutions[1]) = 1
                    /\ (board.width = 3 /\ board.height = 3 /\ c = <<1, 1>>)
                           => solutions[1] = <<<<1, 1>>>>

\* C10 happens: the centre of the 3x3 board was toggled and solve()
\* returned the single list <<(1, 1)>>.
C10_Witness ==
    /\ board.width = 3
    /\ board.height = 3
    /\ board.bits = toggled_once(board, <<1, 1>>)
    /\ solutions = <<<<<<1, 1>>>>>>
    /\ output.msgs = <<OutSteps>>

----------------------------------------------------------------------------
(* Further properties of the solver and of the board *)

\* C11. Solved boards need no move: when solve() returns, the first list
\* is empty exactly when the board is solved, and the "a" command then
\* prints 'Already solved!'; for a solved board solve() does return; for
\* the 1x1 board with its cell enabled it returns the empty list alone.
C11_SolvedNeedsNoMove ==
    /\ (check_board(board) /\ is_solved(board)) =>
           output.msgs # <<RaisedUnsolvable>>
    /\ solutions # <<>> =>
           /\ solutions[1] = <<>> <=> is_solved(board)
           /\ OutSolved \in Range(output.msgs) <=> is_solved(board)
           /\ (n_bits(board) = 1 /\ board.bits = 1) => solutions = <<<<>>>>

\* C11 happens: solve() returned the empty list first, before a longer
\* one, for a solved board.
C11_Witness ==
    /\ check_board(board)
    /\ is_solved(board)
    /\ Len(solutions) > 1
    /\ solutions[1] = <<>>
    /\ output.msgs = <<OutMany, OutSolved>>

\* C12. Boards with every cell disabled are solvable: when the state of
\* the board is 0, as the "c" command leaves it, solve() returns at least
\* one list, and every list it returns, applied to the board, enables
\* every cell.
C12_ClearedIsSolvable ==
    (check_board(board) /\ board.bits = 0) =>
        /\ output.msgs # <<RaisedUnsolvable>>
        /\ solve(board) # {}
        /\ \A sols \in solve(board) :
               \A i \in 1 .. Len(sols) :
                   /\ sols[i] # <<>>
                   /\ is_solved(replay(board, sols[i]))

\* C12 happens: on the 2x2 board with every cell disabled the "a" command
\* showed the steps of a solution.
C12_Witness ==
    /\ board.width = 2
    /\ board.height = 2
    /\ board.bits = 0
    /\ solutions # <<>>
    /\ OutSteps \in Range(output.msgs)

\* The absolute value of an integer.
Abs(i) == IF i < 0 THEN 0 - i ELSE i

\* The cell c of a w x h grid and the cells of the grid directly above,
\* below, left and right of it.
neighbourhood(w, h, c) ==
    {d \in Cells(w, h) : Abs(d[1] - c[1]) + Abs(d[2] - c[2]) <= 1}

\* Cell d is in the pattern that b holds for cell c.
in_pattern(b, c, d) ==
    Shr(b.patterns[bit_pos(b.width, b.height, c[1], c[2])],
        bit_pos(b.width, b.height, d[1], d[2])) % 2 = 1

\* The patterns of b are those of a grid of its size: one per cell, each
\* the cell with its neighbours on the grid and nothing else.
shape_ok(b) ==
    /\ DOMAIN b.patterns = 0 .. n_bits(b) - 1
    /\ DOMAIN b.patterns_bits = 0 .. n_bits(b) - 1
    /\ \A c \in Cells(b.width, b.height) :
           /\ b.patterns[bit_pos(b.width, b.height, c[1], c[2])]
                  \in 0 .. 2 ^ n_bits(b) - 1
           /\ \A d \in Cells(b.width, b.height) :
                  in_pattern(b, c, d) <=>
                      d \in neighbourhood(b.width, b.height, c)
           /\ b.patterns_bits[bit_pos(b.width, b.height, c[1], c[2])]
                  = {bit_pos(b.width, b.height, d[1], d[2]) :
                        d \in neighbourhood(b.width, b.height, c)}
           /\ in_pattern(b, c, c)
           /\ \A d \in Cells(b.width, b.height) :
                  in_pattern(b, c, d) <=> in_pattern(b, d, c)

\* C13. Shape of the patterns: whatever commands were run, the pattern of
\* each cell of the board is that cell with its neighbours above, below,
\* left and right on the grid, without wrapping at the edges; so each
\* pattern holds its own cell, cell A is in the pattern of B exactly when B
\* is in the pattern of A, and no command changed the patterns.  The same
\* holds for the new board of every size up to MaxW x MaxH.
C13_PatternShape ==
    /\ check_board(board) =>
           /\ shape_ok(board)
           /\ board.patterns = new_board(board.width, board.height).patterns
           /\ board.patterns_bits
                  = new_board(board.width, board.height).patterns_bits
    /\ \A w \in 1 .. MaxW, h \in 1 .. MaxH : shape_ok(new_board(w, h))

\* C13 happens: solve() ran on a board three cells wide whose state
\* commands had changed.
C13_Witness ==
    /\ check_board(board)
    /\ board.width = 3
    /\ ~is_solved(board)
    /\ solutions # <<>>

\* C14. A toggle undoes itself: in every state of every board the
\* shell reaches, for every cell, apply_pattern at the cell twice in
\* succession gives back the board as it was before the first, while one
\* apply_pattern changes it.
C14_ToggleTwice ==
    check_board(board) =>
        \A c \in Cells(board.width, board.height) :
            /\ apply_pattern(apply_pattern(board, c[1], c[2]), c[1], c[2])
                   = board
            /\ apply_pattern(board, c[1], c[2]) # board

\* C14 happens: the board is one toggle away from the board with every
\* cell enabled, so that a second toggle of the same cell restores that.
C14_Witness ==
    /\ check_board(board)
    /\ ~is_solved(board)
    /\ output.msgs = <<OutBoard>>
    /\ \E c \in Cells(board.width, board.height) :
           apply_pattern(board, c[1], c[2])
               = new_board(board.width, board.height)

RECURSIVE orderings(_)
\* The sequences that list each element of S once.
orderings(S) ==
    IF S = {} THEN {<<>>}
    ELSE UNION {{<<c>> \o rest : rest \in orderings(S \ {c})} : c \in S}

\* C15. The order of toggles does not matter: in every state of every
\* board the shell reaches, for every set S of up to MaxOrder distinct
\* cells, apply_pattern at the cells of S in any order leaves the same
\* state, the one the loop of apply_n_rand leaves for the patterns of S.
C15_AnyOrder ==
    check_board(board) =>
        \A S \in SUBSET Cells(board.width, board.height) :
            Cardinality(S) <= MaxOrder =>
                \A order \in orderings(S) :
                    replay(board, order).bits
                        = xor_all(board, board.bits,
                              {bit_pos(board.width, board.height, c[1], c[2]) :
                                  c \in S})

\* C15 happens: the board is a new board with the patterns of three
\* cells applied, in whichever order.
C15_Witness ==
    /\ check_board(board)
    /\ output.msgs = <<OutBoard>>
    /\ \E S \in SUBSET Cells(board.width, board.height) :
           /\ Cardinality(S) = 3
           /\ \A order \in orderings(S) :
                  replay(new_board(board.width, board.height), order) = board
           /\ board # new_board(board.width, board.height)

\* Every character of the rows that "pb" prints for b is "1".
export_all_ones(b) ==
    \A i \in 1 .. Len(repr(b)) :
        \A j \in 1 .. Len(repr(b)[i]) : repr(b)[i][j] = "1"

\* C16. is_solved() agrees with the export: in every state the shell
\* reaches, is_solved() holds exactly when every character of the rows
\* that "pb" prints is "1"; a new board is solved.
C16_SolvedIffAllOnes ==
    check_board(board) =>
        /\ is_solved(board) <=> export_all_ones(board)
        /\ is_solved(new_board(board.width, board.height))

\* A step of one of the commands that need a board.
NeedsBoard ==
    \/ CmdClear \/ CmdShowBoard \/ CmdShowBinary \/ CmdRand \/ CmdRandRand
    \/ CmdSetBoard \/ CmdEnable \/ CmdDisable \/ CmdFlip \/ CmdAuto

\* C17. Commands without a board are reported, not fatal: while there is
\* no board, every step of a command that needs one ("c", "p", "pb",
\* "r", "rr", "s", "e", "d", "f", "a") prints an error message and leaves
\* the shell running, still without a board; no exception ends the shell.
C17_NoBoardIsReported ==
    [][(~check_board(board) /\ NeedsBoard) =>
           /\ pc' = "running"
           /\ ~check_board(board')
           /\ reports_error(output'.msgs)]_vars

\* C18. Solving does not change the board: every step in which solve()
\* was called (it returned the list now in "solutions", or its assertion
\* failed), whatever the "a" command then replayed on the copy, leaves
\* the board - its size, state and patterns - as it was.
C18_SolveKeepsBoard ==
    [][(solutions' # <<>> \/ output'.msgs = <<RaisedUnsolvable>>) =>
           board' = board]_vars

\* C18 happens: the "a" command replayed a solution of several steps and
\* the board it was run on is still not solved.
C18_Witness ==
    /\ check_board(board)
    /\ ~is_solved(board)
    /\ solutions # <<>>
    /\ Len(solutions[1]) > 1
    /\ OutSteps \in Range(output.msgs)

\* The boards that apply_pattern at the cells of some set of exactly n
\* distinct cells of b, taken one after the other, leaves.
toggled_sets(b, n) ==
    {replay(b, CHOOSE order \in orderings(S) : TRUE) :
        S \in {T \in SUBSET Cells(b.width, b.height) : Cardinality(T) = n}}

\* C19. Random changes toggle n distinct cells: on every board reached
\* with "n", "f", "r" and "rr", for every n from 1 to the number of cells,
\* every board apply_n_rand(n) can leave is the board with the patterns
\* of some n distinct cells applied, and every such board can be left;
\* from a new board, the first list solve() returns afterwards has at
\* most n steps.
C19_RandTogglesDistinct ==
    check_board(board) =>
        \A n \in 1 .. n_bits(board) :
            /\ apply_n_rand(board, n) = toggled_sets(board, n)
            /\ rand_cmd(board, <<<<n, 0>>>>).boards = toggled_sets(board, n)
            /\ board = new_board(board.width, board.height) =>
                   \A b \in apply_n_rand(board, n) :
                       /\ solve(b) # {}
                       /\ \A sols \in solve(b) : Len(sols[1]) <= n

\* C19 happens: the board is a new board after two random changes that
\* did not cancel, and the "a" command found a solution of at most two
\* steps.
C19_Witness ==
    /\ check_board(board)
    /\ board \in apply_n_rand(new_board(board.width, board.height), 2)
    /\ ~is_solved(board)
    /\ solutions # <<>>
    /\ Len(solutions[1]) <= 2

\* Cell c comes before cell d when the board is read row by row from the
\* top left corner: a smaller y, or the same y and a smaller x.
row_major_before(c, d) == c[2] < d[2] \/ (c[2] = d[2] /\ c[1] < d[1])

\* The cells whose bit position is set in the bit vector v of the solver.
cells_set_in(b, v) ==
    {c \in Cells(b.width, b.height) :
        Shr(v, bit_pos(b.width, b.height, c[1], c[2])) % 2 = 1}

\* C20. Shape of a solution: every list solve() returned holds only
\* coordinates (x, y) of cells of the board, each at most once, in row
\* order from the top left corner (increasing y, increasing x within a
\* row); the lists are those of the bit vectors the solver combined, and
\* the cells in the list of a bit vector are the cells whose bit position
\* is set in it.
C20_SolutionShape ==
    solutions # <<>> =>
        /\ \A i \in 1 .. Len(solutions) :
               /\ \A k \in 1 .. Len(solutions[i]) :
                      solutions[i][k] \in Cells(board.width, board.height)
               /\ \A k \in 1 .. Len(solutions[i]) - 1 :
                      row_major_before(solutions[i][k], solutions[i][k + 1])
               /\ Cardinality(Range(solutions[i])) = Len(solutions[i])
        /\ Range(solutions) = {item[2] : item \in generated(board)}
        /\ \A item \in generated(board) :
               Range(item[2]) = cells_set_in(board, item[1][Len(item[1])])

\* C20 happens: solve() returned a list with steps in more than one row
\* and more than one step in some row.
C20_Witness ==
    \E i \in 1 .. Len(solutions) :
        \E j, k, l \in 1 .. Len(solutions[i]) :
            /\ j < k
            /\ k < l
            /\ solutions[i][j][2] = solutions[i][k][2]
            /\ solutions[i][k][2] < solutions[i][l][2]

====
